---- MODULE Spec2Model ----
(***************************************************************************)
(* Order service of the techchallenge repository:                          *)
(*   OrderService.CreateOrder / ConvertDTOtoSlice / GetOrderByID /         *)
(*   GetOrders (internal/core/service, order service) and the HTTP         *)
(*   handlers OrderHandler.GetOrderByID / OrderHandler.GetOrders.          *)
(*                                                                         *)
(* Collaborators (client service, product service, order repository,      *)
(* domain.NewOrder) are modelled at their interface: every call made to    *)
(* one of them is appended to a call log together with what it returned.   *)
(* Money is counted in integer units (float64 rounding is not modelled).   *)
(* Strings that are parsed (identifiers, query parameters) are sequences   *)
(* of one-character strings.                                               *)
(***************************************************************************)
EXTENDS Integers, Sequences, FiniteSets, TLC

VARIABLES
    catalog,          \* product store: product id -> current unit price
    pc,               \* position of the CreateOrder request in flight
    req,              \* dto.CreateOrderRequest of the request in flight
    idx,              \* index of the next line of the range loop (1-based)
    total,            \* local `total`
    productPriceMap,  \* local `productPriceMap`
    order,            \* local `order` (result of domain.NewOrder)
    calls,            \* collaborator calls made by the request in flight
    ret,              \* what CreateOrder returned: [order, err]
    stored,           \* order repository: ids of the stored orders, in order
    qop,              \* last query operation run
    qin,              \* its input
    qsvc,             \* the arguments the service was called with
    qcalls,           \* repository calls it made
    qrepo,            \* what the repository returned to it
    qret,             \* what the service returned
    qhttp             \* HTTP status the handler answered (0: no handler ran)

createVars == <<catalog, pc, req, idx, total, productPriceMap, order, calls, ret>>
queryVars == <<stored, qop, qin, qsvc, qcalls, qrepo, qret, qhttp>>
vars == <<catalog, pc, req, idx, total, productPriceMap, order, calls, ret,
          stored, qop, qin, qsvc, qcalls, qrepo, qret, qhttp>>

----------------------------------------------------------------------------
(* Bounds of the model *)

MaxLines == 2
MaxQuantity == 2
MaxPrice == 2

----------------------------------------------------------------------------
(* Errors: an error is the chain of its messages, outermost first; the    *)
(* empty chain is nil.  fmt.Errorf("msg: %w", err) prepends a message.     *)

NoErr == <<>>
NoOrder == [nil |-> TRUE]

Wrap(msg, err) == <<msg>> \o err

----------------------------------------------------------------------------
(* uuid.Parse and UUID.String (github.com/google/uuid), as called by       *)
(* OrderService.GetOrderByID.  A UUID is a sequence of 16 bytes.           *)

HexLower == <<"0", "1", "2", "3", "4", "5", "6", "7", "8", "9",
              "a", "b", "c", "d", "e", "f">>
HexUpper == <<"0", "1", "2", "3", "4", "5", "6", "7", "8", "9",
              "A", "B", "C", "D", "E", "F">>
Uppers == <<"A", "B", "C", "D", "E", "F", "G", "H", "I", "J", "K", "L", "M",
            "N", "O", "P", "Q", "R", "S", "T", "U", "V", "W", "X", "Y", "Z">>
Lowers == <<"a", "b", "c", "d", "e", "f", "g", "h", "i", "j", "k", "l", "m",
            "n", "o", "p", "q", "r", "s", "t", "u", "v", "w", "x", "y", "z">>

IndexOf(c, table) ==
    IF \E i \in 1..Len(table) : table[i] = c
    THEN CHOOSE i \in 1..Len(table) : table[i] = c
    ELSE 0

\* xvalues[c]: the value of a hexadecimal digit, 255 for any other character
XValue(c) ==
    IF IndexOf(c, HexLower) > 0 THEN IndexOf(c, HexLower) - 1
    ELSE IF IndexOf(c, HexUpper) > 0 THEN IndexOf(c, HexUpper) - 1
    ELSE 255

\* xtob: two hexadecimal digits to a byte
Xtob(x1, x2) ==
    [b  |-> (XValue(x1) * 16 + XValue(x2)) % 256,
     ok |-> XValue(x1) # 255 /\ XValue(x2) # 255]

ToLower(c) == IF IndexOf(c, Uppers) > 0 THEN Lowers[IndexOf(c, Uppers)] ELSE c

\* strings.EqualFold on strings of letters and punctuation
EqualFold(s, t) ==
    /\ Len(s) = Len(t)
    /\ \A i \in 1..Len(s) : ToLower(s[i]) = ToLower(t[i])

UrnPrefix == <<"u", "r", "n", ":", "u", "u", "i", "d", ":">>

\* 0-based offsets of the 16 bytes in xxxxxxxx-xxxx-xxxx-xxxx-xxxxxxxxxxxx
ByteOffsets == <<0, 2, 4, 6, 9, 11, 14, 16, 19, 21, 24, 26, 28, 30, 32, 34>>

ZeroUUID == [i \in 1..16 |-> 0]

\* The hyphenated form, s being at least 36 characters long
ParseHyphenated(s) ==
    IF s[9] # "-" \/ s[14] # "-" \/ s[19] # "-" \/ s[24] # "-"
    THEN [uuid |-> ZeroUUID, err |-> <<"invalid UUID format">>]
    ELSE IF \E i \in 1..16 :
               ~Xtob(s[ByteOffsets[i] + 1], s[ByteOffsets[i] + 2]).ok
    THEN [uuid |-> ZeroUUID, err |-> <<"invalid UUID format">>]
    ELSE [uuid |-> [i \in 1..16 |->
                      Xtob(s[ByteOffsets[i] + 1], s[ByteOffsets[i] + 2]).b],
          err |-> NoErr]

\* The form of 32 hexadecimal digits
ParsePlain(s) ==
    IF \E i \in 1..16 : ~Xtob(s[2 * i - 1], s[2 * i]).ok
    THEN [uuid |-> ZeroUUID, err |-> <<"invalid UUID format">>]
    ELSE [uuid |-> [i \in 1..16 |-> Xtob(s[2 * i - 1], s[2 * i]).b],
          err |-> NoErr]

\* uuid.Parse.  Releases of the library before 1.4 do not look at the two
\* characters around a 38-character form; the inputs below hold that form
\* only with its braces, where all releases agree.
Parse(s) ==
    CASE Len(s) = 36 -> ParseHyphenated(s)
      [] Len(s) = 36 + 9 ->
            IF ~EqualFold(SubSeq(s, 1, 9), UrnPrefix)
            THEN [uuid |-> ZeroUUID, err |-> <<"invalid urn prefix">>]
            ELSE ParseHyphenated(SubSeq(s, 10, Len(s)))
      [] Len(s) = 36 + 2 ->
            IF s[1] # "{" \/ s[Len(s)] # "}"
            THEN [uuid |-> ZeroUUID, err |-> <<"invalid bracketed UUID format">>]
            ELSE ParseHyphenated(SubSeq(s, 2, Len(s)))
      [] Len(s) = 32 -> ParsePlain(s)
      [] OTHER -> [uuid |-> ZeroUUID, err |-> <<"invalid UUID length">>]

\* hex.Encode of bytes from..to of a UUID: two lower-case digits per byte
RECURSIVE EncodeHex(_, _, _)
EncodeHex(uuid, from, to) ==
    IF from > to THEN <<>>
    ELSE <<HexLower[(uuid[from] \div 16) + 1], HexLower[(uuid[from] % 16) + 1]>>
         \o EncodeHex(uuid, from + 1, to)

\* UUID.String: xxxxxxxx-xxxx-xxxx-xxxx-xxxxxxxxxxxx
UUIDString(uuid) ==
    EncodeHex(uuid, 1, 4) \o <<"-">> \o EncodeHex(uuid, 5, 6) \o <<"-">>
    \o EncodeHex(uuid, 7, 8) \o <<"-">> \o EncodeHex(uuid, 9, 10) \o <<"-">>
    \o EncodeHex(uuid, 11, 16)

----------------------------------------------------------------------------
(* Identifier strings given to GetOrderByID *)

\* "abcdef01-2345-6789-abcd-ef0123456789"
IdLower ==
    <<"a", "b", "c", "d", "e", "f", "0", "1", "-", "2", "3", "4", "5", "-",
      "6", "7", "8", "9", "-", "a", "b", "c", "d", "-", "e", "f", "0", "1",
      "2", "3", "4", "5", "6", "7", "8", "9">>

\* "ABCDEF01-2345-6789-ABCD-EF0123456789"
IdUpper ==
    <<"A", "B", "C", "D", "E", "F", "0", "1", "-", "2", "3", "4", "5", "-",
      "6", "7", "8", "9", "-", "A", "B", "C", "D", "-", "E", "F", "0", "1",
      "2", "3", "4", "5", "6", "7", "8", "9">>

\* "urn:uuid:abcdef01-2345-6789-abcd-ef0123456789"
IdUrn ==
    <<"u", "r", "n", ":", "u", "u", "i", "d", ":", "a", "b", "c", "d", "e",
      "f", "0", "1", "-", "2", "3", "4", "5", "-", "6", "7", "8", "9", "-",
      "a", "b", "c", "d", "-", "e", "f", "0", "1", "2", "3", "4", "5", "6",
      "7", "8", "9">>

\* "URN:UUID:ABCDEF01-2345-6789-ABCD-EF0123456789"
IdUrnUpper ==
    <<"U", "R", "N", ":", "U", "U", "I", "D", ":", "A", "B", "C", "D", "E",
      "F", "0", "1", "-", "2", "3", "4", "5", "-", "6", "7", "8", "9", "-",
      "A", "B", "C", "D", "-", "E", "F", "0", "1", "2", "3", "4", "5", "6",
      "7", "8", "9">>

\* "{abcdef01-2345-6789-abcd-ef0123456789}"
IdBraced ==
    <<"{", "a", "b", "c", "d", "e", "f", "0", "1", "-", "2", "3", "4", "5",
      "-", "6", "7", "8", "9", "-", "a", "b", "c", "d", "-", "e", "f", "0",
      "1", "2", "3", "4", "5", "6", "7", "8", "9", "}">>

\* "abcdef0123456789abcdef0123456789"
IdNoDash ==
    <<"a", "b", "c", "d", "e", "f", "0", "1", "2", "3", "4", "5", "6", "7",
      "8", "9", "a", "b", "c", "d", "e", "f", "0", "1", "2", "3", "4", "5",
      "6", "7", "8", "9">>

\* "00112233-4455-6677-8899-aabbccddeeff"
IdSecond ==
    <<"0", "0", "1", "1", "2", "2", "3", "3", "-", "4", "4", "5", "5", "-",
      "6", "6", "7", "7", "-", "8", "8", "9", "9", "-", "a", "a", "b", "b",
      "c", "c", "d", "d", "e", "e", "f", "f">>

\* "00112233-4455-6677-8899-AABBccddEEFF"
IdSecondMixed ==
    <<"0", "0", "1", "1", "2", "2", "3", "3", "-", "4", "4", "5", "5", "-",
      "6", "6", "7", "7", "-", "8", "8", "9", "9", "-", "A", "A", "B", "B",
      "c", "c", "d", "d", "E", "E", "F", "F">>

\* "not-a-uuid"
IdNotUUID ==
    <<"n", "o", "t", "-", "a", "-", "u", "u", "i", "d">>

\* "abcdef01-2345-6789-abcd-ef012345678g"
IdBadHex ==
    <<"a", "b", "c", "d", "e", "f", "0", "1", "-", "2", "3", "4", "5", "-",
      "6", "7", "8", "9", "-", "a", "b", "c", "d", "-", "e", "f", "0", "1",
      "2", "3", "4", "5", "6", "7", "8", "g">>

\* "abcdef012-345-6789-abcd-ef0123456789"
IdBadDash ==
    <<"a", "b", "c", "d", "e", "f", "0", "1", "2", "-", "3", "4", "5", "-",
      "6", "7", "8", "9", "-", "a", "b", "c", "d", "-", "e", "f", "0", "1",
      "2", "3", "4", "5", "6", "7", "8", "9">>

\* "xrn:uuid:abcdef01-2345-6789-abcd-ef0123456789"
IdBadUrn ==
    <<"x", "r", "n", ":", "u", "u", "i", "d", ":", "a", "b", "c", "d", "e",
      "f", "0", "1", "-", "2", "3", "4", "5", "-", "6", "7", "8", "9", "-",
      "a", "b", "c", "d", "-", "e", "f", "0", "1", "2", "3", "4", "5", "6",
      "7", "8", "9">>

\* "abcdef0123456789abcdef012345678z"
IdBadNoDash ==
    <<"a", "b", "c", "d", "e", "f", "0", "1", "2", "3", "4", "5", "6", "7",
      "8", "9", "a", "b", "c", "d", "e", "f", "0", "1", "2", "3", "4", "5",
      "6", "7", "8", "z">>

\* Identifiers that parse, in any of the accepted forms
WellFormedIds ==
    {IdLower, IdUpper, IdUrn, IdUrnUpper, IdBraced, IdNoDash, IdSecond,
     IdSecondMixed}

\* Identifiers that do not parse
MalformedIds == {IdNotUUID, IdBadHex, IdBadDash, IdBadUrn, IdBadNoDash}

\* The identifiers uuid.New() hands out, in their string form
OrderIds == {IdLower, IdSecond}

----------------------------------------------------------------------------
(* Inputs of CreateOrder *)

RegisteredCPF == "11122233344"
UnknownCPF == "00000000000"
ClientCPFs == {RegisteredCPF, UnknownCPF}

\* P1 and P2 are products of the store; P9 never exists.
StoreProducts == {"P1", "P2"}
ProductIDs == StoreProducts \cup {"P9"}
Prices == 1..MaxPrice
Quantities == 1..MaxQuantity

\* dto.ProductItem
ProductItems == [ID : ProductIDs, Quantity : Quantities]

\* dto.CreateOrderRequest.Products: any list of at most MaxLines lines
ProductLists == UNION {[1..n -> ProductItems] : n \in 0..MaxLines}

\* dto.CreateOrderRequest
CreateOrderRequests ==
    [Client : ClientCPFs, Products : ProductLists, Status : {"pending"}]

NoRequest == [Client |-> "", Products |-> <<>>, Status |-> ""]

----------------------------------------------------------------------------
(* Collaborators of CreateOrder *)

\* ClientService.GetClientByCPF: the errors it can return for a CPF.
\* A registered client resolves, unless the lookup itself fails.
ClientLookupErrs(cpf) ==
    IF cpf = RegisteredCPF
    THEN {NoErr, <<"client lookup error">>}
    ELSE {<<"client not found">>}

\* ProductService.GetProductByID: the errors it can return for an id.
ProductLookupErrs(id) ==
    IF id \in DOMAIN catalog
    THEN {NoErr, <<"product lookup error">>}
    ELSE {<<"product not found">>}

\* domain.NewOrder: the errors the constructor can return.
NewOrderErrs(client, items, status, tot) ==
    {NoErr, <<"invalid order">>}

\* domain.NewOrder: the aggregate built from its arguments, under the fresh
\* identifier id.
NewOrder(id, client, items, status, tot) ==
    [ID |-> id, Client |-> client, Products |-> items, Status |-> status,
     Total |-> tot]

\* OrderRepository.CreateOrder: the errors it can return.
RepoCreateErrs(o) == {NoErr, <<"repository write error">>}

----------------------------------------------------------------------------
(* OrderService.CreateOrder *)

\* prices[item.ID] on a Go map: the zero value when the key is absent
MapGet(prices, id) == IF id \in DOMAIN prices THEN prices[id] ELSE 0

\* productPriceMap[item.ID] = product.Price
MapPut(prices, id, price) ==
    [k \in DOMAIN prices \cup {id} |-> IF k = id THEN price ELSE prices[k]]

\* domain.OrderItem built for one line
ConvertItem(item, prices) ==
    [ProductID |-> item.ID,
     Quantity  |-> item.Quantity,
     Price     |-> MapGet(prices, item.ID) * item.Quantity]

ConvertDTOtoSlice(dtoProducts, prices) ==
    [i \in 1..Len(dtoProducts) |-> ConvertItem(dtoProducts[i], prices)]

\* AddLine forgetting the quantity
AddLineNoQuantity(tot, price, quantity) == tot + price

\* total += product.Price * float64(item.Quantity)
AddLine(tot, price, quantity) == tot + price * quantity

ClientValidationFailed(err) == Wrap("client validation failed", err)

ProductValidationFailed(id, err) ==
    Wrap("product validation failed for product ID", Wrap(id, err))

OrderConstructionFailed(err) == Wrap("failed to create order instance", err)

PersistenceFailed(err) == Wrap("failed to save order", err)

Call(op, arg, res, err) == [op |-> op, arg |-> arg, res |-> res, err |-> err]

\* A request arrives: the locals of CreateOrder are fresh.
CreateOrderBegin ==
    /\ pc = "idle"
    /\ \E dto \in CreateOrderRequests : req' = dto
    /\ pc' = "client"
    /\ idx' = 1
    /\ total' = 0
    /\ productPriceMap' = <<>>
    /\ order' = NoOrder
    /\ calls' = <<>>
    /\ ret' = [order |-> NoOrder, err |-> NoErr]
    /\ UNCHANGED <<catalog, queryVars>>

\* LookupClient without the check of the error
LookupClientUnchecked ==
    /\ pc = "client"
    /\ \E err \in ClientLookupErrs(req.Client) :
          calls' = Append(calls, Call("GetClientByCPF", req.Client, 0, err))
    /\ pc' = "products"
    /\ UNCHANGED <<catalog, req, idx, total, productPriceMap, order, ret,
                   queryVars>>

\* s.clientService.GetClientByCPF(ctx, dto.Client) and the check of its error
LookupClient ==
    /\ pc = "client"
    /\ \E err \in ClientLookupErrs(req.Client) :
          /\ calls' = Append(calls, Call("GetClientByCPF", req.Client, 0, err))
          /\ IF err # NoErr
             THEN /\ ret' = [order |-> NoOrder, err |-> ClientValidationFailed(err)]
                  /\ pc' = "done"
             ELSE /\ ret' = ret
                  /\ pc' = "products"
    /\ UNCHANGED <<catalog, req, idx, total, productPriceMap, order, queryVars>>

\* LookupProduct going on to the next line after a failed lookup
LookupProductBestEffort ==
    /\ pc = "products"
    /\ idx <= Len(req.Products)
    /\ LET item == req.Products[idx] IN
       \E err \in ProductLookupErrs(item.ID) :
          IF err # NoErr
          THEN /\ calls' = Append(calls, Call("GetProductByID", item.ID, 0, err))
               /\ UNCHANGED <<total, productPriceMap>>
          ELSE /\ calls' = Append(calls,
                      Call("GetProductByID", item.ID, catalog[item.ID], err))
               /\ productPriceMap' =
                      MapPut(productPriceMap, item.ID, catalog[item.ID])
               /\ total' = AddLine(total, catalog[item.ID], item.Quantity)
    /\ idx' = idx + 1
    /\ UNCHANGED <<catalog, pc, ret, req, order, queryVars>>

\* One iteration of the range loop over dto.Products
LookupProduct ==
    /\ pc = "products"
    /\ idx <= Len(req.Products)
    /\ LET item == req.Products[idx] IN
       \E err \in ProductLookupErrs(item.ID) :
          IF err # NoErr
          THEN /\ calls' = Append(calls, Call("GetProductByID", item.ID, 0, err))
               /\ ret' = [order |-> NoOrder,
                          err |-> ProductValidationFailed(item.ID, err)]
               /\ pc' = "done"
               /\ UNCHANGED <<idx, total, productPriceMap>>
          ELSE /\ calls' = Append(calls,
                      Call("GetProductByID", item.ID, catalog[item.ID], err))
               /\ productPriceMap' =
                      MapPut(productPriceMap, item.ID, catalog[item.ID])
               /\ total' = AddLine(total, catalog[item.ID], item.Quantity)
               /\ idx' = idx + 1
               /\ UNCHANGED <<pc, ret>>
    /\ UNCHANGED <<catalog, req, order, queryVars>>

\* End of the loop: ConvertDTOtoSlice, then domain.NewOrder
ConstructOrder ==
    /\ pc = "products"
    /\ idx > Len(req.Products)
    /\ LET items == ConvertDTOtoSlice(req.Products, productPriceMap)
           args  == [Client |-> req.Client, Products |-> items,
                     Status |-> req.Status, Total |-> total]
       IN \E err \in NewOrderErrs(req.Client, items, req.Status, total) :
          IF err # NoErr
          THEN /\ calls' = Append(calls, Call("NewOrder", args, NoOrder, err))
               /\ ret' = [order |-> NoOrder, err |-> OrderConstructionFailed(err)]
               /\ pc' = "done"
               /\ order' = order
          ELSE /\ \E id \in OrderIds :
                     order' = NewOrder(id, req.Client, items, req.Status, total)
               /\ calls' = Append(calls, Call("NewOrder", args, order', err))
               /\ pc' = "persist"
               /\ ret' = ret
    /\ UNCHANGED <<catalog, req, idx, total, productPriceMap, queryVars>>

\* PersistOrder trying again after a failed write
PersistOrderRetry ==
    /\ pc = "persist"
    /\ \E err \in RepoCreateErrs(order) :
          IF err # NoErr
          THEN /\ calls' = Append(calls, Call("CreateOrder", order, NoOrder, err))
               /\ UNCHANGED <<ret, pc>>
          ELSE /\ calls' = Append(calls, Call("CreateOrder", order, order, err))
               /\ ret' = [order |-> order, err |-> NoErr]
               /\ pc' = "done"
    /\ UNCHANGED <<catalog, req, idx, total, productPriceMap, order, queryVars>>

\* s.orderRepo.CreateOrder(ctx, order) and the return
PersistOrder ==
    /\ pc = "persist"
    /\ \E err \in RepoCreateErrs(order) :
          IF err # NoErr
          THEN /\ calls' = Append(calls, Call("CreateOrder", order, NoOrder, err))
               /\ ret' = [order |-> NoOrder, err |-> PersistenceFailed(err)]
          ELSE /\ calls' = Append(calls, Call("CreateOrder", order, order, err))
               /\ ret' = [order |-> order, err |-> NoErr]
    /\ pc' = "done"
    /\ UNCHANGED <<catalog, req, idx, total, productPriceMap, order, queryVars>>

\* CreateOrder has returned: its locals go out of scope.
CreateOrderEnd ==
    /\ pc = "done"
    /\ pc' = "idle"
    /\ req' = NoRequest
    /\ idx' = 1
    /\ total' = 0
    /\ productPriceMap' = <<>>
    /\ order' = NoOrder
    /\ calls' = <<>>
    /\ ret' = [order |-> NoOrder, err |-> NoErr]
    /\ UNCHANGED <<catalog, queryVars>>

\* A product of the store gets another price (ProductHandler.UpdateProduct),
\* at any moment, also between two lookups of one CreateOrder.
UpdateProduct ==
    /\ \E id \in DOMAIN catalog, price \in Prices :
          /\ price # catalog[id]
          /\ catalog' = [catalog EXCEPT ![id] = price]
    /\ UNCHANGED <<pc, req, idx, total, productPriceMap, order, calls, ret,
                   queryVars>>


----------------------------------------------------------------------------
(* Order repository, as the queries see it *)

\* An order as the repository returns it
StoredOrder(id) ==
    [ID |-> id, Client |-> RegisteredCPF, Products |-> <<>>,
     Status |-> "pending", Total |-> 0]

\* OrderRepository.GetOrderByID: exact match on the identifier string
RepoGetOrderByID(id, fails) ==
    IF fails THEN [res |-> NoOrder, err |-> <<"repository read error">>]
    ELSE IF \E i \in 1..Len(stored) : stored[i] = id
    THEN [res |-> StoredOrder(id), err |-> NoErr]
    ELSE [res |-> NoOrder, err |-> <<"no documents in result">>]

Min(a, b) == IF a < b THEN a ELSE b

\* OrderRepository.GetOrders: page `page` of the stored orders, `size` a page
RepoGetOrders(page, size, fails) ==
    IF fails THEN [res |-> <<>>, err |-> <<"repository read error">>]
    ELSE [res |-> [i \in 1..(Min(page * size, Len(stored))
                             - Min((page - 1) * size, Len(stored))) |->
                      StoredOrder(stored[(page - 1) * size + i])],
          err |-> NoErr]

----------------------------------------------------------------------------
(* OrderService.GetOrderByID and OrderService.GetOrders *)

DefaultPage == 1
DefaultSize == 10

InvalidIDFormat(err) == Wrap("invalid ID format", err)

OrderNotFound(err) == Wrap("order not found", err)

\* RepoKey handing on the identifier as it was given
RepoKeyAsGiven(id, uuid) == id

\* The identifier handed to the repository: uuidID.String()
RepoKey(id, uuid) == UUIDString(uuid)

\* OrderService.GetOrderByID: what it returns, the repository calls it makes
\* and what the repository answered
ServiceGetOrderByID(id, fails) ==
    LET parsed == Parse(id) IN
    IF parsed.err # NoErr
    THEN [res |-> NoOrder, err |-> InvalidIDFormat(parsed.err),
          calls |-> <<>>, repo |-> [res |-> NoOrder, err |-> NoErr]]
    ELSE LET key == RepoKey(id, parsed.uuid)
             got == RepoGetOrderByID(key, fails)
         IN [res |-> IF got.err # NoErr THEN NoOrder ELSE got.res,
             err |-> IF got.err # NoErr THEN OrderNotFound(got.err) ELSE NoErr,
             calls |-> <<Call("GetOrderByID", key, got.res, got.err)>>,
             repo |-> got]

NormalizePage(page) == IF page <= 0 THEN DefaultPage ELSE page

\* NormalizeSize letting a size of zero through
NormalizeSizeNegativeOnly(size) == IF size < 0 THEN DefaultSize ELSE size

NormalizeSize(size) == IF size <= 0 THEN DefaultSize ELSE size

\* The error GetOrders returns for a repository error
GetOrdersError(err) == err

\* OrderService.GetOrders
ServiceGetOrders(page, size, fails) ==
    LET p   == NormalizePage(page)
        n   == NormalizeSize(size)
        got == RepoGetOrders(p, n, fails)
    IN [res |-> IF got.err # NoErr THEN <<>> ELSE got.res,
        err |-> IF got.err # NoErr THEN GetOrdersError(got.err) ELSE NoErr,
        calls |-> <<Call("GetOrders", <<p, n>>, got.res, got.err)>>,
        repo |-> got]

----------------------------------------------------------------------------
(* strconv.Atoi, as called by OrderHandler.GetOrders *)

Digits == <<"0", "1", "2", "3", "4", "5", "6", "7", "8", "9">>

RECURSIVE DigitsValue(_)
DigitsValue(s) ==
    IF s = <<>> THEN 0
    ELSE DigitsValue(SubSeq(s, 1, Len(s) - 1)) * 10
         + (IndexOf(s[Len(s)], Digits) - 1)

Atoi(s) ==
    LET signed == Len(s) > 0 /\ s[1] \in {"+", "-"}
        body   == IF signed THEN Tail(s) ELSE s
    IN IF body = <<>> \/ \E i \in 1..Len(body) : IndexOf(body[i], Digits) = 0
       THEN [n |-> 0, err |-> <<"strconv.Atoi: invalid syntax">>]
       ELSE [n |-> IF signed /\ s[1] = "-" THEN 0 - DigitsValue(body)
                   ELSE DigitsValue(body),
             err |-> NoErr]

----------------------------------------------------------------------------
(* HTTP handlers of the queries *)

StatusOK == 200
StatusBadRequest == 400
StatusNotFound == 404
StatusInternalServerError == 500

\* OrderHandler.GetOrderByID: the status it answers
GetOrderByIDStatus(id, err) ==
    IF id = <<>> THEN StatusBadRequest
    ELSE IF err # NoErr THEN StatusNotFound
    ELSE StatusOK

\* OrderHandler.GetOrders: the page it asks the service for
HandlerPage(s) == IF Atoi(s).err # NoErr \/ Atoi(s).n < 1 THEN 1 ELSE Atoi(s).n

\* OrderHandler.GetOrders: the size it asks the service for
HandlerSize(s) == IF Atoi(s).err # NoErr \/ Atoi(s).n <= 0 THEN 10 ELSE Atoi(s).n

----------------------------------------------------------------------------
(* Inputs of the queries *)

IdStrings == WellFormedIds \cup MalformedIds \cup {<<>>}

PageNumbers == {-5, -1, 0, 1, 2, 3, 10}

QueryStrings ==
    {<<>>,
     <<"0">>,
     <<"1">>,
     <<"2">>,
     <<"1", "0">>,
     <<"-", "5">>,
     <<"+", "2">>,
     <<"a", "b", "c">>,
     <<"1", "x">>}

----------------------------------------------------------------------------
(* Query operations.  A query reads the repository in one step; its answer *)
(* is held in the q-variables until QueryEnd delivers it.                  *)

\* The repository comes to hold one more order (OrderRepository.CreateOrder
\* succeeded for an order with a fresh identifier).
RepoStore ==
    /\ qop = "none"
    /\ \E id \in OrderIds :
          /\ \A i \in 1..Len(stored) : stored[i] # id
          /\ stored' = Append(stored, id)
    /\ UNCHANGED <<createVars, qop, qin, qsvc, qcalls, qrepo, qret, qhttp>>

\* OrderService.GetOrderByID called by itself
GetOrderByID ==
    /\ qop = "none"
    /\ \E id \in IdStrings, fails \in BOOLEAN :
          LET r == ServiceGetOrderByID(id, fails) IN
          /\ qop' = "GetOrderByID"
          /\ qin' = id
          /\ qsvc' = id
          /\ qcalls' = r.calls
          /\ qrepo' = r.repo
          /\ qret' = [res |-> r.res, err |-> r.err]
          /\ qhttp' = 0
    /\ UNCHANGED <<createVars, stored>>

\* OrderHandler.GetOrderByID
HandleGetOrderByID ==
    /\ qop = "none"
    /\ \E id \in IdStrings, fails \in BOOLEAN :
          /\ qop' = "HandleGetOrderByID"
          /\ qin' = id
          /\ IF id = <<>>
             THEN /\ qsvc' = <<>>
                  /\ qcalls' = <<>>
                  /\ qrepo' = [res |-> NoOrder, err |-> NoErr]
                  /\ qret' = [res |-> NoOrder, err |-> NoErr]
                  /\ qhttp' = GetOrderByIDStatus(id, NoErr)
             ELSE LET r == ServiceGetOrderByID(id, fails) IN
                  /\ qsvc' = id
                  /\ qcalls' = r.calls
                  /\ qrepo' = r.repo
                  /\ qret' = [res |-> r.res, err |-> r.err]
                  /\ qhttp' = GetOrderByIDStatus(id, r.err)
    /\ UNCHANGED <<createVars, stored>>

\* OrderService.GetOrders called by itself
GetOrders ==
    /\ qop = "none"
    /\ \E page \in PageNumbers, size \in PageNumbers, fails \in BOOLEAN :
          LET r == ServiceGetOrders(page, size, fails) IN
          /\ qop' = "GetOrders"
          /\ qin' = <<page, size>>
          /\ qsvc' = <<page, size>>
          /\ qcalls' = r.calls
          /\ qrepo' = r.repo
          /\ qret' = [res |-> r.res, err |-> r.err]
          /\ qhttp' = 0
    /\ UNCHANGED <<createVars, stored>>

\* OrderHandler.GetOrders
HandleGetOrders ==
    /\ qop = "none"
    /\ \E page \in QueryStrings, size \in QueryStrings, fails \in BOOLEAN :
          LET r == ServiceGetOrders(HandlerPage(page), HandlerSize(size), fails)
          IN
          /\ qop' = "HandleGetOrders"
          /\ qin' = <<page, size>>
          /\ qsvc' = <<HandlerPage(page), HandlerSize(size)>>
          /\ qcalls' = r.calls
          /\ qrepo' = r.repo
          /\ qret' = [res |-> r.res, err |-> r.err]
          /\ qhttp' = IF r.err # NoErr THEN StatusInternalServerError
                      ELSE StatusOK
    /\ UNCHANGED <<createVars, stored>>

\* The answer of the query has been delivered.
QueryEnd ==
    /\ qop # "none"
    /\ qop' = "none"
    /\ qin' = <<>>
    /\ qsvc' = <<>>
    /\ qcalls' = <<>>
    /\ qrepo' = [res |-> <<>>, err |-> NoErr]
    /\ qret' = [res |-> <<>>, err |-> NoErr]
    /\ qhttp' = 0
    /\ UNCHANGED <<createVars, stored>>

----------------------------------------------------------------------------
(* Specification of order creation *)

QueryIdle ==
    /\ stored = <<>>
    /\ qop = "none"
    /\ qin = <<>>
    /\ qsvc = <<>>
    /\ qcalls = <<>>
    /\ qrepo = [res |-> <<>>, err |-> NoErr]
    /\ qret = [res |-> <<>>, err |-> NoErr]
    /\ qhttp = 0

CreateIdle ==
    /\ catalog \in [StoreProducts -> Prices]
    /\ pc = "idle"
    /\ req = NoRequest
    /\ idx = 1
    /\ total = 0
    /\ productPriceMap = <<>>
    /\ order = NoOrder
    /\ calls = <<>>
    /\ ret = [order |-> NoOrder, err |-> NoErr]

Init == CreateIdle /\ QueryIdle

Next ==
    \/ CreateOrderBegin
    \/ LookupClient
    \/ LookupProduct
    \/ ConstructOrder
    \/ PersistOrder
    \/ CreateOrderEnd
    \/ UpdateProduct

Spec == Init /\ [][Next]_vars


----------------------------------------------------------------------------
(* Specification of the queries *)

QueryInit ==
    /\ CreateIdle
    /\ catalog = [id \in StoreProducts |-> 1]
    /\ QueryIdle

QueryNext ==
    \/ RepoStore
    \/ GetOrderByID
    \/ HandleGetOrderByID
    \/ GetOrders
    \/ HandleGetOrders
    \/ QueryEnd

QuerySpec == QueryInit /\ [][QueryNext]_vars

----------------------------------------------------------------------------
(* Properties of order creation (checked under Spec) *)

IsCall(k, op) == k \in 1..Len(calls) /\ calls[k].op = op

RepoCreateCalls == {k \in 1..Len(calls) : calls[k].op = "CreateOrder"}

\* C1: when the client lookup returns an error, CreateOrder returns no order
\* and "client validation failed" wrapping that error, and the client lookup
\* is the only collaborator call of the request: no product lookup, no
\* repository CreateOrder.
C1_ClientFailureAborts ==
    (IsCall(1, "GetClientByCPF") /\ calls[1].err # NoErr) =>
        /\ pc = "done"
        /\ ret.order = NoOrder
        /\ ret.err = <<"client validation failed">> \o calls[1].err
        /\ Len(calls) = 1

C1_Witness ==
    /\ pc = "done"
    /\ req.Client = UnknownCPF
    /\ Len(req.Products) = 2
    /\ calls[1].err = <<"client not found">>

\* C2: when line K is the first whose product lookup fails, CreateOrder
\* returns "product validation failed" naming line K's product id, the product
\* lookups made are those of lines 1..K in submission order, and nothing else
\* is called afterwards (no repository CreateOrder).
C2_FirstProductFailureAborts ==
    \A K \in 1..Len(req.Products) :
        (IsCall(K + 1, "GetProductByID") /\ calls[K + 1].err # NoErr) =>
            /\ pc = "done"
            /\ ret.order = NoOrder
            /\ ret.err = <<"product validation failed for product ID",
                           req.Products[K].ID>> \o calls[K + 1].err
            /\ Len(calls) = K + 1
            /\ \A j \in 1..K :
                  /\ calls[j + 1].op = "GetProductByID"
                  /\ calls[j + 1].arg = req.Products[j].ID
            /\ \A j \in 1..K : calls[j].err = NoErr
            /\ RepoCreateCalls = {}

C2_Witness ==
    /\ pc = "done"
    /\ Len(req.Products) = 2
    /\ req.Products[1].ID = "P9"
    /\ Len(calls) = 2
    /\ calls[2].err = <<"product not found">>

\* C3: the collaborator calls of a request are, in this order, one client
\* lookup, the product lookups of the lines in submission order, the
\* construction of the aggregate and the repository's CreateOrder; a call is
\* made only when every earlier one succeeded; the repository's CreateOrder
\* is called at most once, with the constructed aggregate; a CreateOrder that
\* returns an order called it exactly once.
C3_CallOrder ==
    LET n == Len(req.Products) IN
    /\ Len(calls) <= n + 3
    /\ \A k \in 1..Len(calls) :
          /\ calls[k].op \in
                {"GetClientByCPF", "GetProductByID", "NewOrder", "CreateOrder"}
          /\ (calls[k].op = "GetClientByCPF") <=> (k = 1)
          /\ (calls[k].op = "GetClientByCPF") => calls[k].arg = req.Client
          /\ \A j \in 1..(k - 1) : calls[j].err = NoErr
          /\ (calls[k].op = "GetProductByID") =>
                /\ k - 1 \in 1..n
                /\ calls[k].arg = req.Products[k - 1].ID
          /\ (calls[k].op = "NewOrder") => k = n + 2
          /\ (calls[k].op = "CreateOrder") =>
                /\ k = n + 3
                /\ calls[k - 1].op = "NewOrder"
                /\ calls[k].arg = calls[k - 1].res
    /\ Cardinality(RepoCreateCalls) <= 1
    /\ (ret.order # NoOrder) =>
          /\ RepoCreateCalls = {n + 3}
          /\ calls[n + 3].err = NoErr
          /\ ret.order = calls[n + 3].res

C3_Witness ==
    /\ pc = "done"
    /\ ret.order # NoOrder
    /\ Len(req.Products) = 2
    /\ Len(calls) = 5

DistinctIds(products) ==
    \A i, j \in 1..Len(products) : i # j => products[i].ID # products[j].ID

\* The sum, over lines 1..n, of the price the line's lookup returned times
\* the line's quantity
RECURSIVE LookupTotal(_)
LookupTotal(n) ==
    IF n = 0 THEN 0
    ELSE LookupTotal(n - 1) + calls[n + 1].res * req.Products[n].Quantity

\* C4: for a request of N >= 1 lines over distinct product ids that all
\* resolve, the total given to the constructor, and the total of the order
\* handed to the repository, is the sum over the lines of the price returned
\* by the line's lookup times the line's quantity.
C4_TotalIsSumOfLookups ==
    \A k \in 1..Len(calls) :
        (/\ calls[k].op \in {"NewOrder", "CreateOrder"}
         /\ Len(req.Products) >= 1
         /\ DistinctIds(req.Products)) =>
            calls[k].arg.Total = LookupTotal(Len(req.Products))

C4_Witness ==
    /\ IsCall(5, "CreateOrder")
    /\ DistinctIds(req.Products)
    /\ calls[2].res # calls[3].res
    /\ req.Products[1].Quantity # req.Products[2].Quantity
    /\ calls[5].arg.Total = 5

RECURSIVE SumLineTotals(_)
SumLineTotals(items) ==
    IF items = <<>> THEN 0
    ELSE items[1].Price + SumLineTotals(Tail(items))

\* C5 (as claimed): the total of every order handed to the repository is the
\* sum of the line totals of its items.
C5_TotalIsSumOfLineTotals ==
    \A k \in RepoCreateCalls :
        calls[k].arg.Total = SumLineTotals(calls[k].arg.Products)

\* C6 (as claimed): the order of a successful CreateOrder has one item per
\* line, in submission order, item i carrying line i's product id and
\* quantity and, as line total, the price returned by the lookup made for
\* line i times line i's quantity.
C6_ItemsFollowLookups ==
    (pc = "done" /\ ret.order # NoOrder) =>
        /\ Len(ret.order.Products) = Len(req.Products)
        /\ \A i \in 1..Len(req.Products) :
              /\ ret.order.Products[i].ProductID = req.Products[i].ID
              /\ ret.order.Products[i].Quantity = req.Products[i].Quantity
              /\ ret.order.Products[i].Price =
                    calls[i + 1].res * req.Products[i].Quantity

\* C7 (as claimed): CreateOrder given an empty product list returns an error
\* and makes no repository CreateOrder call.
C7_EmptyListRejected ==
    (pc # "idle" /\ req.Products = <<>>) =>
        /\ RepoCreateCalls = {}
        /\ (pc = "done") => ret.err # NoErr

----------------------------------------------------------------------------
(* Properties of the queries (checked under QuerySpec) *)

\* The canonical form of a well-formed identifier of the inputs
CanonicalForm(id) ==
    IF id \in {IdSecond, IdSecondMixed} THEN IdSecond ELSE IdLower

ServiceGetOrderByIDRan ==
    \/ qop = "GetOrderByID"
    \/ qop = "HandleGetOrderByID" /\ qin # <<>>

\* C8: for an identifier that does not parse as a UUID, GetOrderByID returns
\* an "invalid ID format" error and makes no repository call; for one that
\* parses, it calls the repository's GetOrderByID exactly once with the
\* canonical string of the UUID, and returns a repository error as an "order
\* not found" error, which differs from the invalid-format error.
C8_GetOrderByID ==
    ServiceGetOrderByIDRan =>
        /\ (qin \notin WellFormedIds) =>
              /\ qret.res = NoOrder
              /\ Len(qret.err) > 1
              /\ qret.err[1] = "invalid ID format"
              /\ qcalls = <<>>
        /\ (qin \in WellFormedIds) =>
              /\ Len(qcalls) = 1
              /\ qcalls[1].op = "GetOrderByID"
              /\ qcalls[1].arg = CanonicalForm(qin)
              /\ (qcalls[1].err # NoErr) =>
                    /\ qret.res = NoOrder
                    /\ qret.err = <<"order not found">> \o qcalls[1].err
                    /\ qret.err[1] # "invalid ID format"
              /\ (qcalls[1].err = NoErr) =>
                    /\ qret.res = qcalls[1].res
                    /\ qret.err = NoErr

C8_Witness ==
    /\ qop = "GetOrderByID"
    /\ qin = IdUrnUpper
    /\ stored = <<IdSecond, IdLower>>
    /\ qret.err = NoErr
    /\ qret.res.ID = IdLower

\* C9: GetOrders calls the repository's GetOrders exactly once, with the page
\* if it is positive and 1 otherwise, and the size if it is positive and 10
\* otherwise; it returns the repository's orders, or the repository's error
\* unchanged, and no other error.  GetOrders(0, -5) makes the call of
\* GetOrders(1, 10) and so returns the first ten stored orders.
C9_GetOrders ==
    (qop \in {"GetOrders", "HandleGetOrders"}) =>
        /\ Len(qcalls) = 1
        /\ qcalls[1].op = "GetOrders"
        /\ qcalls[1].arg = <<IF qsvc[1] > 0 THEN qsvc[1] ELSE 1,
                             IF qsvc[2] > 0 THEN qsvc[2] ELSE 10>>
        /\ qret.err = qcalls[1].err
        /\ (qcalls[1].err = NoErr) => qret.res = qcalls[1].res
        /\ (qsvc \in {<<0, -5>>, <<1, 10>>}) =>
              /\ qcalls[1].arg = <<1, 10>>
              /\ (qret.err = NoErr) =>
                    qret.res = [i \in 1..Len(stored) |-> StoredOrder(stored[i])]

C9_Witness ==
    /\ qop = "GetOrders"
    /\ qsvc = <<0, -5>>
    /\ Len(stored) = 2
    /\ qret.err = NoErr
    /\ Len(qret.res) = 2

\* C10 (as claimed): the GetOrderByID handler answers 400 whenever the id is
\* missing or is not a well-formed identifier, answers 404 only when a
\* well-formed id matches no stored order, and answers 200 exactly when the
\* service returns an order.
C10_HandlerStatus ==
    (qop = "HandleGetOrderByID") =>
        /\ (qin \notin WellFormedIds) => qhttp = StatusBadRequest
        /\ (qhttp = StatusNotFound) =>
              /\ qin \in WellFormedIds
              /\ \A i \in 1..Len(stored) : stored[i] # CanonicalForm(qin)
        /\ (qhttp = StatusOK) <=> (qret.err = NoErr /\ qret.res # NoOrder)

====
